---------------------------- MODULE Spec2Model ----------------------------
(***************************************************************************)
(* The Monte Carlo confidence-interval / detection simulation of           *)
(* poline-stats/evil-p.ipynb: the seed cell, the sampling cells, the       *)
(* p-value cells with their assert, the function confidence_interval, the  *)
(* simulation cell, the report cell and the plot cell, run in notebook     *)
(* order; and the function pig_latin of                                    *)
(* benson-intro-python/day1_introduction-to-python.ipynb.                  *)
(*                                                                         *)
(* Floating point numbers are fixed-point numbers with Scale units per 1,  *)
(* together with the IEEE special values nan, +inf and -inf; every         *)
(* operation rounds to the nearest unit (the square root rounds down).     *)
(* The process-wide generator of numpy is a small multiple recursive       *)
(* generator: a deterministic function of its state, set by the seed.      *)
(***************************************************************************)
EXTENDS Integers, Sequences, FiniteSets

VARIABLES
    cfg,          \* the literals of the notebook's text: seed, prmtrs, CI, alpha
    pc,           \* the position of the run in the notebook
    rng,          \* the state of the process-wide generator
    sample,       \* global sample (cells 4 and 18)
    alpha,        \* global alpha (set by the 20-experiment cell)
    idx,          \* the experiments of the 20-experiment loop done so far
    effect_size,  \* global effect_size (20-experiment cell)
    prmtrs,       \* global prmtrs (simulation cell)
    i,            \* the iterations of the simulation loop done so far
    effect, lCI, uCI, t,   \* the arrays of the simulation cell
    ret,          \* what the last call of confidence_interval returned
    t_alpha, detect,       \* the threshold and the detection mask
    report,       \* what the report cell printed
    plot,         \* what the plot cell printed
    run,          \* 1 in the first execution of the notebook, 2 in the second
    first,        \* the results of the first execution
    t_val, p_val, \* global t_val and p_val (p-value cells, 20-experiment cell)
    text,         \* pig_latin: the argument
    word_list,    \* pig_latin: the tokens of the argument
    output_list,  \* pig_latin: the converted words
    word,         \* pig_latin: the loop variable
    pos,          \* pig_latin: the tokens the loop has taken
    pygged        \* pig_latin: the string returned

\* the variables of the function pig_latin
pigVars == <<text, word_list, output_list, word, pos, pygged>>

\* the variables of the notebook evil-p.ipynb, but for the position pc
statVars == <<cfg, rng, sample, alpha, idx, effect_size, prmtrs, i, effect,
              lCI, uCI, t, ret, t_alpha, detect, report, plot, run, first,
              t_val, p_val>>

vars == <<cfg, pc, rng, sample, alpha, idx, effect_size, prmtrs, i, effect,
          lCI, uCI, t, ret, t_alpha, detect, report, plot, run, first,
          t_val, p_val, text, word_list, output_list, word, pos, pygged>>

(***************************************************************************)
(* Bounds of the model.                                                    *)
(***************************************************************************)
\* the largest sample size n drawn for prmtrs
MaxN == 3
\* the number of simulated experiments (1000 in the notebook)
Nexp == 3
\* the seeds 1..MaxSeed are tried (the notebook's seed is 42)
MaxSeed == 5
\* the largest sample the p-value cells are run on (30 in the notebook)
MaxLen == 3

(***************************************************************************)
(* Floating point values.                                                  *)
(***************************************************************************)
Scale == 1000

Fin(x) == [k |-> "fin", v |-> x]
NaN == [k |-> "nan", v |-> 0]
PInf == [k |-> "inf", v |-> 1]
NInf == [k |-> "inf", v |-> -1]

IsNaN(a) == a.k = "nan"
IsFin(a) == a.k = "fin"
IsInf(a) == a.k = "inf"

Sign(x) == IF x > 0 THEN 1 ELSE IF x < 0 THEN -1 ELSE 0

\* x / y rounded to the nearest integer, y # 0
RoundDiv(x, y) ==
    LET ax == IF x < 0 THEN -x ELSE x
        ay == IF y < 0 THEN -y ELSE y
        q  == (2 * ax + ay) \div (2 * ay)
    IN IF Sign(x) * Sign(y) < 0 THEN -q ELSE q

RECURSIVE SqrtIter(_, _)
SqrtIter(x, r) ==
    LET r2 == (r + x \div r) \div 2
    IN IF r2 >= r THEN r ELSE SqrtIter(x, r2)

\* the integer square root of x >= 0, rounded down
ISqrt(x) == IF x = 0 THEN 0 ELSE SqrtIter(x, x)

FNeg(a) == IF IsNaN(a) THEN NaN ELSE [k |-> a.k, v |-> -a.v]

FAdd(a, b) ==
    IF IsNaN(a) \/ IsNaN(b) THEN NaN
    ELSE IF IsInf(a) /\ IsInf(b) THEN (IF a.v = b.v THEN a ELSE NaN)
    ELSE IF IsInf(a) THEN a
    ELSE IF IsInf(b) THEN b
    ELSE Fin(a.v + b.v)

FSub(a, b) == FAdd(a, FNeg(b))

FMul(a, b) ==
    IF IsNaN(a) \/ IsNaN(b) THEN NaN
    ELSE IF IsInf(a) \/ IsInf(b)
         THEN (IF a.v = 0 \/ b.v = 0 THEN NaN
               ELSE IF Sign(a.v) * Sign(b.v) > 0 THEN PInf ELSE NInf)
    ELSE Fin(RoundDiv(a.v * b.v, Scale))

FDiv(a, b) ==
    IF IsNaN(a) \/ IsNaN(b) THEN NaN
    ELSE IF IsInf(a)
         THEN (IF IsInf(b) THEN NaN
               ELSE IF Sign(a.v) * (IF b.v < 0 THEN -1 ELSE 1) > 0
                    THEN PInf ELSE NInf)
    ELSE IF IsInf(b) THEN Fin(0)
    ELSE IF b.v = 0
         THEN (IF a.v = 0 THEN NaN ELSE IF a.v > 0 THEN PInf ELSE NInf)
    ELSE Fin(RoundDiv(a.v * Scale, b.v))

FSqrt(a) ==
    IF IsNaN(a) THEN NaN
    ELSE IF IsInf(a) THEN (IF a.v > 0 THEN PInf ELSE NaN)
    ELSE IF a.v < 0 THEN NaN
    ELSE Fin(ISqrt(a.v * Scale))

\* the comparisons of IEEE numbers: every comparison with nan is false
FLt(a, b) ==
    /\ ~IsNaN(a)
    /\ ~IsNaN(b)
    /\ IF IsInf(a) THEN a.v < 0 /\ ~(IsInf(b) /\ b.v < 0)
       ELSE IF IsInf(b) THEN b.v > 0
       ELSE a.v < b.v

FGt(a, b) == FLt(b, a)

FEq(a, b) == ~IsNaN(a) /\ ~IsNaN(b) /\ a = b

FLe(a, b) == FLt(a, b) \/ FEq(a, b)

FGe(a, b) == FLe(b, a)

\* the integer m as a floating point number
FromInt(m) == Fin(m * Scale)

\* the sum of s[lo..hi], added pairwise
RECURSIVE FSumRange(_, _, _)
FSumRange(s, lo, hi) ==
    IF lo > hi THEN Fin(0)
    ELSE IF lo = hi THEN s[lo]
    ELSE LET mid == (lo + hi) \div 2
         IN FAdd(FSumRange(s, lo, mid), FSumRange(s, mid + 1, hi))

\* ndarray.sum(): 0 for an empty array
FSum(s) == FSumRange(s, 1, Len(s))

\* ndarray.mean(): nan for an empty array
FMean(s) == FDiv(FSum(s), FromInt(Len(s)))


(***************************************************************************)
(* The process-wide random generator (np.random).  Its state is the last   *)
(* three digits of a recurrence modulo 5; a draw steps the recurrence and  *)
(* returns the standard normal deviate of the new digit.                   *)
(***************************************************************************)
\* the standard normal deviates a draw can return, in fixed point
ZVals == <<-1200, -1000, 0, 1000, 1200>>

GenStates == {g \in [1..3 -> 0..4] : g # <<0, 0, 0>>}

\* a seed call that leaves the generator where it is
SeedState_Ignored(s) == rng

\* np.random.seed(s): the state is a function of the seed alone (the seed
\* scrambled by a linear congruence, as init_genrand does)
SeedState(s) ==
    LET m == ((29 * s + 8) % 124) + 1
    IN <<m % 5, (m \div 5) % 5, (m \div 25) % 5>>

GenNext(g) == <<g[2], g[3], (g[3] + 2 * g[1]) % 5>>

GenOut(g) == Fin(ZVals[g[3] + 1])

\* the generator state after n draws
RECURSIVE GenSkip(_, _)
GenSkip(g, n) == IF n <= 0 THEN g ELSE GenSkip(GenNext(g), n - 1)

\* the n standard normal deviates drawn from state g, in drawing order
RECURSIVE StandardNormal(_, _)
StandardNormal(g, n) ==
    IF n <= 0 THEN <<>>
    ELSE <<GenOut(GenNext(g))>> \o StandardNormal(GenNext(g), n - 1)

\* rvs drawing from a generator of its own: the process-wide one stays put
Rvs_OwnGenerator(loc, scale, n, g) ==
    IF FLt(scale, Fin(0))
    THEN [raised |-> TRUE, sample |-> <<>>, rng |-> g]
    ELSE LET z == StandardNormal(g, n)
         IN [raised |-> FALSE,
             sample |-> [j \in 1..Len(z) |-> FAdd(loc, FMul(scale, z[j]))],
             rng |-> g]

\* sst.norm(loc, scale).rvs(size=(n,)): scipy raises ValueError before it
\* draws when scale < 0; otherwise loc + scale * z for n fresh deviates z
Rvs(loc, scale, n, g) ==
    IF FLt(scale, Fin(0))
    THEN [raised |-> TRUE, sample |-> <<>>, rng |-> g]
    ELSE LET z == StandardNormal(g, n)
         IN [raised |-> FALSE,
             sample |-> [j \in 1..Len(z) |-> FAdd(loc, FMul(scale, z[j]))],
             rng |-> GenSkip(g, n)]

(***************************************************************************)
(* Student's t: the inverse survival function sst.t(df).isf(p), tabulated  *)
(* at the upper tail probabilities 0.025, 0.05, 0.5, 0.95 and 0.975.       *)
(***************************************************************************)
T050 == <<6314, 2920, 2353, 2132, 2015, 1943, 1895, 1860, 1833>>
T025 == <<12706, 4303, 3182, 2776, 2571, 2447, 2365, 2306, 2262>>

\* the quantiles of the upper tail for df degrees of freedom (df >= 1)
Quantile050(df) == IF df <= 9 THEN T050[df] ELSE IF df <= 15 THEN 1753
                   ELSE IF df <= 29 THEN 1699 ELSE 1645
Quantile025(df) == IF df <= 9 THEN T025[df] ELSE IF df <= 15 THEN 2131
                   ELSE IF df <= 29 THEN 2045 ELSE 1960

\* isf(p) with df degrees of freedom: nan outside the domain (df <= 0, or
\* p outside [0, 1]), +inf at 0 and -inf at 1; no error is raised.  The
\* value is exact at 0.025, 0.05, 0.5, 0.95 and 0.975, the only
\* probabilities the runs evaluate it at, and a step function between them
Isf(p, df) ==
    IF IsNaN(p) \/ df <= 0 THEN NaN
    ELSE IF FLt(p, Fin(0)) \/ FGt(p, Fin(Scale)) THEN NaN
    ELSE IF p = Fin(0) THEN PInf
    ELSE IF p = Fin(Scale) THEN NInf
    ELSE IF p.v <= 25 THEN Fin(Quantile025(df))
    ELSE IF p.v <= 50 THEN Fin(Quantile050(df))
    ELSE IF p.v < 950 THEN Fin(0)
    ELSE IF p.v < 975 THEN Fin(-Quantile050(df))
    ELSE Fin(-Quantile025(df))

(***************************************************************************)
(* numpy's reductions.                                                     *)
(***************************************************************************)
\* x squared
FSquare(x) == FMul(x, x)

\* the squared deviations of the elements of a from m
Dev2(a, m) == [j \in 1..Len(a) |-> FSquare(FSub(a[j], m))]

\* the variance with ddof ignored: the sum is divided by n
Var_Biased(a, ddof) == FDiv(FSum(Dev2(a, FMean(a))), FromInt(Len(a)))

\* np.var(sample, ddof): the squared deviations from the mean, summed and
\* divided by max(n - ddof, 0)
Var(a, ddof) ==
    LET n   == Len(a)
        cnt == IF n - ddof > 0 THEN n - ddof ELSE 0
    IN FDiv(FSum(Dev2(a, FMean(a))), FromInt(cnt))

\* np.std(a, ddof)
Std(a, ddof) == FSqrt(Var(a, ddof))

\* np.sqrt(n) of an integer n >= 0
SqrtInt(n) == FSqrt(FromInt(n))


(***************************************************************************)
(* confidence_interval(CI, **prmtrs), called with the generator in state   *)
(* g.  The function validates nothing: the only error is the ValueError    *)
(* of rvs for a negative sigma.                                            *)
(***************************************************************************)
\* the quantile of the wrong tail: isf((1+CI)/2)
TCi_WrongTail(ci, df) == Isf(FDiv(FAdd(FromInt(1), ci), FromInt(2)), df)

\* t_ci = strv.isf((1-CI)/2)
TCi(ci, df) == Isf(FDiv(FSub(FromInt(1), ci), FromInt(2)), df)

\* t_alph = strv.isf(alpha)
TAlph(alph, df) == Isf(alph, df)

\* sample = norv.rvs(size=(n,)) + mu, with norv = sst.norm(0., sigma)
DrawSample(n, mu, sigma, g) ==
    LET drawn == Rvs(Fin(0), sigma, n, g)
    IN [raised |-> drawn.raised,
        sample |-> [j \in 1..Len(drawn.sample) |-> FAdd(drawn.sample[j], mu)],
        rng |-> drawn.rng]

\* the standard error with the deviation divided by n, not by its root
StdErrorMean_OverN(smp, n) == FDiv(Std(smp, 1), FromInt(n))

\* std_error_mean = np.std(sample, ddof=1)/np.sqrt(n)
StdErrorMean(smp, n) == FDiv(Std(smp, 1), SqrtInt(n))

\* t = effect/std_error_mean
TStatistic(eff, sem) == FDiv(eff, sem)

\* the half-width without the quantile: one standard error
HalfWidth_OneSem(t_ci, sem) == sem

\* CI_ = t_ci*std_error_mean
HalfWidth(t_ci, sem) == FMul(t_ci, sem)

\* the bound with the sign of the half-width slipped
LowerCI_Plus(eff, half) == FAdd(eff, half)

\* lCI = effect - CI_
LowerCI(eff, half) == FSub(eff, half)

\* uCI = effect + CI_
UpperCI(eff, half) == FAdd(eff, half)

\* return (effect, lCI, uCI, t)
ReturnValue(eff, lo, hi, tv) == <<eff, lo, hi, tv>>

\* the function with the half-width taken from t_alph, the quantile of alpha
ConfidenceInterval_AlphaQuantile(ci, p, g) ==
    LET n      == p.n
        df     == n - 1
        t_alph == TAlph(p.alpha, df)
        drawn  == DrawSample(n, p.mu, p.sigma, g)
        eff    == FMean(drawn.sample)
        sem    == StdErrorMean(drawn.sample, n)
        half   == HalfWidth(t_alph, sem)
    IN IF drawn.raised
       THEN [raised |-> TRUE, rng |-> drawn.rng, effect |-> NaN, lCI |-> NaN,
             uCI |-> NaN, t |-> NaN, std_error_mean |-> NaN, CI_ |-> NaN,
             sample |-> <<>>, value |-> <<>>]
       ELSE [raised |-> FALSE, rng |-> drawn.rng, effect |-> eff,
             lCI |-> LowerCI(eff, half), uCI |-> UpperCI(eff, half),
             t |-> TStatistic(eff, sem), std_error_mean |-> sem, CI_ |-> half,
             sample |-> drawn.sample,
             value |-> ReturnValue(eff, LowerCI(eff, half),
                                   UpperCI(eff, half), TStatistic(eff, sem))]

\* the result of a call: whether it raised, the generator it leaves, the
\* locals sample, effect, lCI, uCI, t, std_error_mean and CI_, and the
\* tuple it returns
ConfidenceInterval(ci, p, g) ==
    LET n      == p.n
        df     == n - 1
        theta  == FDiv(FMul(p.mu, SqrtInt(n)), p.sigma)
        t_ci   == TCi(ci, df)
        t_alph == TAlph(p.alpha, df)
        drawn  == DrawSample(n, p.mu, p.sigma, g)
        eff    == FMean(drawn.sample)
        sem    == StdErrorMean(drawn.sample, n)
        half   == HalfWidth(t_ci, sem)
    IN IF drawn.raised
       THEN [raised |-> TRUE, rng |-> drawn.rng, effect |-> NaN, lCI |-> NaN,
             uCI |-> NaN, t |-> NaN, std_error_mean |-> NaN, CI_ |-> NaN,
             sample |-> <<>>, value |-> <<>>]
       ELSE [raised |-> FALSE, rng |-> drawn.rng, effect |-> eff,
             lCI |-> LowerCI(eff, half), uCI |-> UpperCI(eff, half),
             t |-> TStatistic(eff, sem), std_error_mean |-> sem, CI_ |-> half,
             sample |-> drawn.sample,
             value |-> ReturnValue(eff, LowerCI(eff, half),
                                   UpperCI(eff, half), TStatistic(eff, sem))]

\* the value of ret before any call
NoReturn == [raised |-> FALSE, rng |-> <<>>, effect |-> NaN, lCI |-> NaN,
             uCI |-> NaN, t |-> NaN, std_error_mean |-> NaN, CI_ |-> NaN,
             sample |-> <<>>, value |-> <<>>]


(***************************************************************************)
(* The survival function sst.t.sf(x, df): linear between the points of the *)
(* table, so that Sf(Isf(p)) = p at every tabulated p.                     *)
(***************************************************************************)
Interpolate(x, x0, p0, x1, p1) == p0 + RoundDiv((p1 - p0) * (x - x0), x1 - x0)

Sf(x, df) ==
    IF IsNaN(x) \/ df <= 0 THEN NaN
    ELSE IF IsInf(x) THEN (IF x.v > 0 THEN Fin(0) ELSE Fin(Scale))
    ELSE LET q50 == Quantile050(df)
             q25 == Quantile025(df)
         IN IF x.v >= q25 THEN Fin(RoundDiv(25 * q25, x.v))
            ELSE IF x.v >= q50 THEN Fin(Interpolate(x.v, q50, 50, q25, 25))
            ELSE IF x.v >= 0 THEN Fin(Interpolate(x.v, 0, 500, q50, 50))
            ELSE IF x.v >= -q50 THEN Fin(Interpolate(x.v, -q50, 950, 0, 500))
            ELSE IF x.v >= -q25 THEN Fin(Interpolate(x.v, -q25, 975, -q50, 950))
            ELSE Fin(Scale - RoundDiv(25 * q25, -x.v))

\* the cumulative distribution function sst.t.cdf(x, df): scipy evaluates
\* cdf(x) as stdtr(df, x) and sf(x) as stdtr(df, -x), two evaluations each
\* rounded to a representable number
Cdf(x, df) == Sf(FNeg(x), df)

\* t_value_from_sample(sample)
TValueFromSample(smp) ==
    LET N           == Len(smp)
        sample_mean == FMean(smp)
        sample_std  == FSqrt(Var(smp, 1))
    IN FDiv(sample_mean, FDiv(sample_std, SqrtInt(N)))

(***************************************************************************)
(* The literals of the notebook.                                           *)
(***************************************************************************)
\* sample_size = (30,)
norm01_size == 30
\* sample_size = 16
sample_size == 16
nb_of_experiments == 20

\* the values tried for the literals of prmtrs, CI and alpha
MuValues == {Fin(-300), Fin(0), Fin(300), Fin(2 * Scale)}
SigmaValues == {Fin(Scale), Fin(2 * Scale)}
AlphaValues == {Fin(50), Fin(500), Fin(950)}
CIValues == {Fin(950)}

ParamAlphaValues == {Fin(50), Fin(500)}

\* the values tried for sigma in a run of the notebook: a negative one makes
\* rvs raise
RunSigmaValues == SigmaValues \cup {Fin(-Scale)}

Params == [n : 1..MaxN, mu : MuValues, sigma : RunSigmaValues,
           alpha : ParamAlphaValues]

\* prmtrs before the simulation cell has assigned it
NoParams == [n |-> 0, mu |-> NaN, sigma |-> NaN, alpha |-> NaN]

\* the literals a run starts with; the literal of prmtrs is read when the
\* simulation cell first runs
Configs == [seed : 1..MaxSeed, prmtrs : {NoParams}, CI : CIValues,
            alpha : AlphaValues]

\* the generator before np.random.seed: seeded by the operating system
FreshStates == {<<1, 0, 0>>, <<2, 3, 4>>}

Zeros == [k \in 1..Nexp |-> Fin(0)]

NoReport == [meanEffect |-> NaN, meanDetected |-> NaN, lowerAbove |-> 0,
             upperBelow |-> 0, not_in_CI |-> 0, detections |-> 0,
             percentage |-> NaN, lowerAboveAll |-> 0, upperBelowAll |-> 0,
             percentageAll |-> NaN]

NoResults == [effect |-> <<>>, lCI |-> <<>>, uCI |-> <<>>, t |-> <<>>,
              detect |-> <<>>, report |-> NoReport]

\* pig_latin has not been called
PigIdle ==
    /\ text = <<>>
    /\ word_list = <<>>
    /\ output_list = <<>>
    /\ word = <<>>
    /\ pos = 0
    /\ pygged = <<>>

Init ==
    /\ cfg \in Configs
    /\ pc = "start"
    /\ rng \in FreshStates
    /\ sample = <<>>
    /\ alpha = NaN
    /\ idx = 0
    /\ effect_size = <<>>
    /\ prmtrs = NoParams
    /\ i = 0
    /\ effect = <<>> /\ lCI = <<>> /\ uCI = <<>> /\ t = <<>>
    /\ ret = NoReturn
    /\ t_alpha = NaN
    /\ detect = <<>>
    /\ report = NoReport
    /\ plot = NaN
    /\ run = 1
    /\ first = NoResults
    /\ t_val = NaN
    /\ p_val = NaN
    /\ PigIdle

\* np.random.seed(42)
SeedCell ==
    /\ pc = "start"
    /\ rng' = SeedState(cfg.seed)
    /\ pc' = "seeded"
    /\ UNCHANGED <<cfg, sample, alpha, idx, effect_size, prmtrs, i, effect,
                   lCI, uCI, t, ret, t_alpha, detect, report, plot, run, first,
                   t_val, p_val>>
    /\ UNCHANGED pigVars

\* norm01 = sst.norm(0,1); sample = norm01.rvs(size=sample_size)
SampleCell ==
    /\ pc = "seeded"
    /\ \E drawn \in {Rvs(Fin(0), Fin(Scale), norm01_size, rng)} :
          /\ sample' = drawn.sample
          /\ rng' = drawn.rng
    /\ pc' = "sampled"
    /\ UNCHANGED <<cfg, alpha, idx, effect_size, prmtrs, i, effect, lCI, uCI,
                   t, ret, t_alpha, detect, report, plot, run, first,
                   t_val, p_val>>
    /\ UNCHANGED pigVars

\* 1 - sst.t.cdf(x, df)
OneMinusCdf(x, df) == FSub(FromInt(1), Cdf(x, df))

\* the p-value cells:
\*     t_val = t_value_from_sample(sample)
\*     N = len(sample); p_val = sst.t.sf(t_val, df=N-1)
\*     assert p_val == 1 - sst.t.cdf(t_value_from_sample(sample), df=N-1)
\* an AssertionError stops the execution of the notebook
PValueCell ==
    /\ pc = "sampled"
    /\ \E N \in {Len(sample)} :
       \E tv \in {TValueFromSample(sample)} :
       \E pv \in {Sf(tv, N - 1)} :
          /\ t_val' = tv
          /\ p_val' = pv
          /\ pc' = IF FEq(pv, OneMinusCdf(TValueFromSample(sample), N - 1))
                   THEN "asserted" ELSE "error"
    /\ UNCHANGED <<cfg, rng, sample, alpha, idx, effect_size, prmtrs, i,
                   effect, lCI, uCI, t, ret, t_alpha, detect, report, plot,
                   run, first>>
    /\ UNCHANGED pigVars

\* the head of the 20-experiment cell: alpha = 0.05; effect_size = []
ExperimentsStart ==
    /\ pc = "asserted"
    /\ alpha' = cfg.alpha
    /\ effect_size' = <<>>
    /\ idx' = 0
    /\ pc' = "experiments"
    /\ UNCHANGED <<cfg, rng, sample, prmtrs, i, effect, lCI, uCI, t, ret,
                   t_alpha, detect, report, plot, run, first,
                   t_val, p_val>>
    /\ UNCHANGED pigVars

\* every experiment taken as significant
Signif_Any(pv, alph) == TRUE

\* signif = int(p_val <= alpha)
Signif(pv, alph) == FLe(pv, alph)

\* one iteration of for idx in range(nb_of_experiments)
ExperimentStep ==
    /\ pc = "experiments"
    /\ idx < nb_of_experiments
    /\ \E drawn \in {Rvs(Fin(220), Fin(Scale), sample_size, rng)} :
       \E tv \in {TValueFromSample(drawn.sample)} :
       \E pv \in {Sf(TValueFromSample(drawn.sample), sample_size - 1)} :
          /\ sample' = drawn.sample
          /\ rng' = drawn.rng
          /\ t_val' = tv
          /\ p_val' = pv
          /\ effect_size' = IF Signif(pv, alpha)
                            THEN Append(effect_size, FMean(drawn.sample))
                            ELSE effect_size
    /\ idx' = idx + 1
    /\ UNCHANGED <<cfg, pc, alpha, prmtrs, i, effect, lCI, uCI, t, ret,
                   t_alpha, detect, report, plot, run, first>>
    /\ UNCHANGED pigVars


(***************************************************************************)
(* The simulation cell.                                                    *)
(***************************************************************************)
\* prmtrs = {...}; the four arrays = np.zeros((Nexp,))
\* (the first execution fixes the literal, the second reads the same text)
SimStart ==
    /\ pc = "experiments"
    /\ idx = nb_of_experiments
    /\ \E p \in (IF run = 1 THEN Params ELSE {cfg.prmtrs}) :
           /\ cfg' = [cfg EXCEPT !.prmtrs = p]
           /\ prmtrs' = p
    /\ effect' = Zeros /\ lCI' = Zeros /\ uCI' = Zeros /\ t' = Zeros
    /\ i' = 0
    /\ pc' = "simulate"
    /\ UNCHANGED <<rng, sample, alpha, idx, effect_size, ret, t_alpha,
                   detect, report, plot, run, first,
                   t_val, p_val>>
    /\ UNCHANGED pigVars

\* the assignment made to the whole array: a[:] = x
SetItem_Broadcast(a, k, x) == [j \in 1..Len(a) |-> x]

\* a[k] = x: the array with element k replaced (k counted from 1)
SetItem(a, k, x) == [a EXCEPT ![k] = x]

\* the iteration with the record passed by reference and rewritten by the
\* callee: alpha halved in place for the two-sided interval
SimStep_ByReference ==
    /\ pc = "simulate"
    /\ i < Nexp
    /\ \E r \in {ConfidenceInterval(cfg.CI, prmtrs, rng)} :
          /\ ret' = r
          /\ rng' = r.rng
          /\ IF r.raised
             THEN /\ pc' = "error"
                  /\ UNCHANGED <<i, effect, lCI, uCI, t>>
             ELSE /\ effect' = SetItem(effect, i + 1, r.value[1])
                  /\ lCI' = SetItem(lCI, i + 1, r.value[2])
                  /\ uCI' = SetItem(uCI, i + 1, r.value[3])
                  /\ t' = SetItem(t, i + 1, r.value[4])
                  /\ i' = i + 1
                  /\ pc' = pc
    /\ prmtrs' = [prmtrs EXCEPT !.alpha = FDiv(prmtrs.alpha, FromInt(2))]
    /\ UNCHANGED <<cfg, sample, alpha, idx, effect_size, t_alpha,
                   detect, report, plot, run, first,
                   t_val, p_val>>
    /\ UNCHANGED pigVars

\* one iteration of for i in range(Nexp):
\*     effect[i], lCI[i], uCI[i], t[i] = confidence_interval(CI=.95, **prmtrs)
\* (the call builds a new dict from the entries of prmtrs, and the body of
\* the function only reads it).  Nothing catches an exception of the call:
\* it leaves the loop and the cell, and the execution of the notebook stops
SimStep ==
    /\ pc = "simulate"
    /\ i < Nexp
    /\ \E r \in {ConfidenceInterval(cfg.CI, prmtrs, rng)} :
          /\ ret' = r
          /\ rng' = r.rng
          /\ IF r.raised
             THEN /\ pc' = "error"
                  /\ UNCHANGED <<i, effect, lCI, uCI, t>>
             ELSE /\ effect' = SetItem(effect, i + 1, r.value[1])
                  /\ lCI' = SetItem(lCI, i + 1, r.value[2])
                  /\ uCI' = SetItem(uCI, i + 1, r.value[3])
                  /\ t' = SetItem(t, i + 1, r.value[4])
                  /\ i' = i + 1
                  /\ pc' = pc
    /\ UNCHANGED <<cfg, sample, alpha, idx, effect_size, prmtrs, t_alpha,
                   detect, report, plot, run, first,
                   t_val, p_val>>
    /\ UNCHANGED pigVars

\* t_alpha = sst.t(prmtrs['n']-1).isf(alpha)
TAlpha(alph, n) == Isf(alph, n - 1)

\* the comparison made non-strict
Detect_NonStrict(tv, thr) == FGe(tv, thr)

\* the two-sided test: t beyond the threshold on either side
Detect_TwoSided(tv, thr) == FGt(tv, thr) \/ FLt(tv, FNeg(thr))

\* detect = t>t_alpha, for one element of t
Detect(tv, thr) == FGt(tv, thr)

\* detect = t>t_alpha, for the array t
DetectMask(tt, thr) == [k \in 1..Len(tt) |-> Detect(tt[k], thr)]

\* the tail of the simulation cell: the threshold and the detection mask
SimEnd ==
    /\ pc = "simulate"
    /\ i = Nexp
    /\ t_alpha' = TAlpha(alpha, prmtrs.n)
    /\ detect' = DetectMask(t, TAlpha(alpha, prmtrs.n))
    /\ pc' = "detected"
    /\ UNCHANGED <<cfg, rng, sample, alpha, idx, effect_size, prmtrs, i,
                   effect, lCI, uCI, t, ret, report, plot, run, first,
                   t_val, p_val>>
    /\ UNCHANGED pigVars

(***************************************************************************)
(* The report cell and the plot cell.                                      *)
(***************************************************************************)
\* the selection taken as a slice: a[:mask.sum()]
Masked_Prefix(a, mask) == SubSeq(a, 1, Cardinality({k \in 1..Len(mask) : mask[k]}))

\* a[mask]: the elements of a where mask is true, in order
RECURSIVE Masked(_, _)
Masked(a, mask) ==
    IF a = <<>> THEN <<>>
    ELSE (IF Head(mask) THEN <<Head(a)>> ELSE <<>>)
         \o Masked(Tail(a), Tail(mask))

\* mask.sum(): the number of true elements
RECURSIVE CountTrue(_)
CountTrue(mask) ==
    IF mask = <<>> THEN 0
    ELSE (IF Head(mask) THEN 1 ELSE 0) + CountTrue(Tail(mask))

\* a > x and a < x, elementwise
Above(a, x) == [k \in 1..Len(a) |-> FGt(a[k], x)]
Below(a, x) == [k \in 1..Len(a) |-> FLt(a[k], x)]

\* the true division of two numpy integers: nan for 0/0, no error raised
IntTrueDiv(a, b) == FDiv(FromInt(a), FromInt(b))

\* the mask summed as if it held +1 and -1
DetectionCount_Signed(mask) == 2 * CountTrue(mask) - Len(mask)

\* detect.sum()
DetectionCount(mask) == CountTrue(mask)

\* (lCI[detect]>prmtrs['mu']).sum()
LowerAbove(lo, mask, mu) == CountTrue(Above(Masked(lo, mask), mu))

\* (uCI[detect]<prmtrs['mu']).sum()
UpperBelow(hi, mask, mu) == CountTrue(Below(Masked(hi, mask), mu))

\* not_in_CI
NotInCI(lo, hi, mask, mu) == UpperBelow(hi, mask, mu) + LowerAbove(lo, mask, mu)

\* the mean taken over every trial: effect.mean()
MeanDetected_AllTrials(eff, mask) == FMean(eff)

\* effect[detect].mean()
MeanDetected(eff, mask) == FMean(Masked(eff, mask))

\* not_in_CI/detect.sum()
Percentage(lo, hi, mask, mu) ==
    IntTrueDiv(NotInCI(lo, hi, mask, mu), DetectionCount(mask))

\* what the report cell prints of the arrays eff, lo, hi and the mask
Report(eff, lo, hi, mask, mu) ==
    [meanEffect    |-> FMean(eff),
     meanDetected  |-> MeanDetected(eff, mask),
     lowerAbove    |-> LowerAbove(lo, mask, mu),
     upperBelow    |-> UpperBelow(hi, mask, mu),
     not_in_CI     |-> NotInCI(lo, hi, mask, mu),
     detections    |-> DetectionCount(mask),
     percentage    |-> Percentage(lo, hi, mask, mu),
     lowerAboveAll |-> CountTrue(Above(lo, mu)),
     upperBelowAll |-> CountTrue(Below(hi, mu)),
     percentageAll |->
         IntTrueDiv(CountTrue(Above(lo, mu)) + CountTrue(Below(hi, mu)), Nexp)]

ReportCell ==
    /\ pc = "detected"
    /\ report' = Report(effect, lCI, uCI, detect, prmtrs.mu)
    /\ pc' = "reported"
    /\ UNCHANGED <<cfg, rng, sample, alpha, idx, effect_size, prmtrs, i,
                   effect, lCI, uCI, t, ret, t_alpha, detect, plot, run, first,
                   t_val, p_val>>
    /\ UNCHANGED pigVars

\* (lCI > mu).sum() / (1.*detect.sum())
PlotRatio(lo, mask, mu) ==
    FDiv(FromInt(CountTrue(Above(lo, mu))), FromInt(DetectionCount(mask)))

PlotCell ==
    /\ pc = "reported"
    /\ plot' = PlotRatio(lCI, detect, prmtrs.mu)
    /\ pc' = "done"
    /\ UNCHANGED <<cfg, rng, sample, alpha, idx, effect_size, prmtrs, i,
                   effect, lCI, uCI, t, ret, t_alpha, detect, report, run,
                   first,
                   t_val, p_val>>
    /\ UNCHANGED pigVars

\* the notebook is executed a second time from its first cell, in the same
\* kernel: every global keeps its value until a cell assigns it again
Results == [effect |-> effect, lCI |-> lCI, uCI |-> uCI, t |-> t,
            detect |-> detect, report |-> report]

RunAgain ==
    /\ pc = "done"
    /\ run = 1
    /\ first' = Results
    /\ run' = 2
    /\ pc' = "start"
    /\ UNCHANGED <<cfg, rng, sample, alpha, idx, effect_size, prmtrs, i,
                   effect, lCI, uCI, t, ret, t_alpha, detect, report, plot,
                   t_val, p_val>>
    /\ UNCHANGED pigVars

Next ==
    \/ SeedCell
    \/ SampleCell
    \/ PValueCell
    \/ ExperimentsStart
    \/ ExperimentStep
    \/ SimStart
    \/ SimStep
    \/ SimEnd
    \/ ReportCell
    \/ PlotCell
    \/ RunAgain

Spec == Init /\ [][Next]_vars


(***************************************************************************)
(* One call of confidence_interval with any parameters, valid or not, and  *)
(* the generator in any state.                                             *)
(***************************************************************************)
TrialSigmaValues == SigmaValues \cup {Fin(-Scale), Fin(0)}
TrialAlphaValues == {Fin(-50), Fin(50), Fin(500), Fin(Scale)}
TrialCIValues == {Fin(-900), Fin(0), Fin(900), Fin(950), Fin(Scale), Fin(1500)}

TrialParams == [n : 0..MaxN, mu : MuValues, sigma : TrialSigmaValues,
                alpha : TrialAlphaValues]

InitTrial ==
    /\ cfg \in [seed : {0}, prmtrs : TrialParams, CI : TrialCIValues,
                alpha : {Fin(50)}]
    /\ pc = "call"
    /\ rng \in GenStates
    /\ sample = <<>>
    /\ alpha = cfg.alpha
    /\ idx = 0
    /\ effect_size = <<>>
    /\ prmtrs = cfg.prmtrs
    /\ i = 0
    /\ effect = <<>> /\ lCI = <<>> /\ uCI = <<>> /\ t = <<>>
    /\ ret = NoReturn
    /\ t_alpha = NaN
    /\ detect = <<>>
    /\ report = NoReport
    /\ plot = NaN
    /\ run = 1
    /\ first = NoResults
    /\ t_val = NaN
    /\ p_val = NaN
    /\ PigIdle

\* confidence_interval(CI, **prmtrs)
Call ==
    /\ pc = "call"
    /\ \E r \in {ConfidenceInterval(cfg.CI, prmtrs, rng)} :
          /\ ret' = r
          /\ rng' = r.rng
          /\ pc' = IF r.raised THEN "raised" ELSE "returned"
    /\ UNCHANGED <<cfg, sample, alpha, idx, effect_size, prmtrs, i, effect,
                   lCI, uCI, t, t_alpha, detect, report, plot, run, first,
                   t_val, p_val>>
    /\ UNCHANGED pigVars

SpecTrial == InitTrial /\ [][Call]_vars

(***************************************************************************)
(* The p-value cells run on any sample of 2 to MaxLen values.              *)
(***************************************************************************)
\* the values a sample is made of: the deviates, and two shifted values
SampleValues == {Fin(ZVals[k]) : k \in 1..5} \cup {Fin(220), Fin(300)}

Samples == UNION {[1..N -> SampleValues] : N \in 2..MaxLen}

InitSample ==
    /\ cfg = [seed |-> 0, prmtrs |-> NoParams, CI |-> Fin(950),
              alpha |-> Fin(50)]
    /\ pc = "sampled"
    /\ rng \in FreshStates
    /\ sample \in Samples
    /\ alpha = NaN
    /\ idx = 0
    /\ effect_size = <<>>
    /\ prmtrs = cfg.prmtrs
    /\ i = 0
    /\ effect = <<>> /\ lCI = <<>> /\ uCI = <<>> /\ t = <<>>
    /\ ret = NoReturn
    /\ t_alpha = NaN
    /\ detect = <<>>
    /\ report = NoReport
    /\ plot = NaN
    /\ run = 1
    /\ first = NoResults
    /\ t_val = NaN
    /\ p_val = NaN
    /\ PigIdle

SpecSample == InitSample /\ [][PValueCell]_vars

\* the parameters the specification of the simulator calls valid
InUnitInterval(x) == FGt(x, Fin(0)) /\ FLt(x, Fin(Scale))

ValidParameters(p, ci) ==
    /\ p.n >= 2
    /\ FGt(p.sigma, Fin(0))
    /\ InUnitInterval(p.alpha)
    /\ InUnitInterval(ci)


(***************************************************************************)
(* pig_latin(text) of the notebook day1_introduction-to-python.ipynb of    *)
(* benson-intro-python.                                                    *)
(* A string is a sequence of characters; the characters tried are a vowel, *)
(* a consonant, a capital, the space and a digit.                          *)
(***************************************************************************)
\* the longest argument tried
MaxText == 4

Chars == {"a", "b", "A", " ", "1"}

Texts == UNION {[1..n -> Chars] : n \in 0..MaxText}

\* str.split(' ') from position j on, with cur the token begun: every space
\* ends a token, so two spaces in a row, a leading or a trailing space give
\* an empty token, and the empty string gives one empty token
RECURSIVE SplitFrom(_, _, _)
SplitFrom(txt, j, cur) ==
    IF j > Len(txt) THEN <<cur>>
    ELSE IF txt[j] = " " THEN <<cur>> \o SplitFrom(txt, j + 1, <<>>)
    ELSE SplitFrom(txt, j + 1, Append(cur, txt[j]))

\* text.split(' ')
Split(txt) == SplitFrom(txt, 1, <<>>)

\* str.lower()
LowerChar(c) == IF c = "A" THEN "a" ELSE c
Lower(w) == [j \in 1..Len(w) |-> LowerChar(w[j])]

IsLetter(c) == c \in {"a", "b", "A"}

\* the test true of the empty string, as all() of no character is
IsAlpha_Vacuous(w) == \A j \in 1..Len(w) : IsLetter(w[j])

\* str.isalpha(): every character is a letter and there is at least one
IsAlpha(w) == Len(w) > 0 /\ \A j \in 1..Len(w) : IsLetter(w[j])

\* first_char in 'aeiou'
IsVowel(c) == c \in {"a", "e", "i", "o", "u"}

\* the body of if word.isalpha(), for a word that has a first character
PigWord(w) ==
    LET first_char == w[1]
    IN IF IsVowel(first_char) THEN w \o <<"a", "y">>
       ELSE Tail(w) \o <<first_char>> \o <<"y", "a", "y">>

\* ' '.join(list)
RECURSIVE Join(_)
Join(list) ==
    IF list = <<>> THEN <<>>
    ELSE IF Len(list) = 1 THEN list[1]
    ELSE list[1] \o <<" ">> \o Join(Tail(list))

InitPig ==
    /\ cfg = [seed |-> 0, prmtrs |-> NoParams, CI |-> Fin(950),
              alpha |-> Fin(50)]
    /\ pc = "pig_call"
    /\ rng = <<1, 0, 0>>
    /\ sample = <<>>
    /\ alpha = NaN
    /\ idx = 0
    /\ effect_size = <<>>
    /\ prmtrs = NoParams
    /\ i = 0
    /\ effect = <<>> /\ lCI = <<>> /\ uCI = <<>> /\ t = <<>>
    /\ ret = NoReturn
    /\ t_alpha = NaN
    /\ detect = <<>>
    /\ report = NoReport
    /\ plot = NaN
    /\ run = 1
    /\ first = NoResults
    /\ t_val = NaN
    /\ p_val = NaN
    /\ text \in Texts
    /\ word_list = <<>>
    /\ output_list = <<>>
    /\ word = <<>>
    /\ pos = 0
    /\ pygged = <<>>

\* word_list = text.split(' '); output_list = []
PigSplit ==
    /\ pc = "pig_call"
    /\ word_list' = Split(text)
    /\ output_list' = <<>>
    /\ pos' = 0
    /\ pc' = "pig_loop"
    /\ UNCHANGED <<text, word, pygged>>
    /\ UNCHANGED statVars

\* one iteration of for word in word_list; word[0] of an empty word raises
\* IndexError, which nothing catches
PigStep ==
    /\ pc = "pig_loop"
    /\ pos < Len(word_list)
    /\ \E w \in {Lower(word_list[pos + 1])} :
          IF IsAlpha(w)
          THEN IF Len(w) = 0
               THEN /\ word' = w
                    /\ pc' = "pig_error"
                    /\ UNCHANGED <<output_list, pos>>
               ELSE /\ word' = PigWord(w)
                    /\ output_list' = Append(output_list, PigWord(w))
                    /\ pos' = pos + 1
                    /\ pc' = pc
          ELSE /\ word' = w
               /\ pos' = pos + 1
               /\ UNCHANGED <<output_list, pc>>
    /\ UNCHANGED <<text, word_list, pygged>>
    /\ UNCHANGED statVars

\* pygged = ' '.join(output_list); return pygged
PigReturn ==
    /\ pc = "pig_loop"
    /\ pos = Len(word_list)
    /\ pygged' = Join(output_list)
    /\ pc' = "pig_done"
    /\ UNCHANGED <<text, word_list, output_list, word, pos>>
    /\ UNCHANGED statVars

NextPig ==
    \/ PigSplit
    \/ PigStep
    \/ PigReturn

SpecPig == InitPig /\ [][NextPig]_vars

(***************************************************************************)
(* The claims.                                                             *)
(***************************************************************************)
Returned == pc = "returned"

\* C1: for valid parameters (n >= 2, sigma > 0, alpha and CI in (0,1)) every
\* result confidence_interval returns has lCI <= effect <= uCI, whatever
\* sample was drawn.
C1_BoundsOrdered ==
    (Returned /\ ValidParameters(prmtrs, cfg.CI))
        => (FLe(ret.lCI, ret.effect) /\ FLe(ret.effect, ret.uCI))

\* a call with valid parameters returned an interval of positive width
C1_Witness ==
    /\ Returned
    /\ ValidParameters(prmtrs, cfg.CI)
    /\ FLt(ret.lCI, ret.effect)
    /\ FLt(ret.effect, ret.uCI)

\* C2: a call with invalid parameters (n < 2, sigma <= 0, alpha or CI outside
\* (0,1)) fails before any sample is drawn: it raises, returns no result and
\* leaves the generator as it was.
C2_FailsFast ==
    [][(pc = "call" /\ ~ValidParameters(prmtrs, cfg.CI))
           => (pc' = "raised" /\ rng' = rng)]_vars

\* C3: a call with n = 2 (and the other parameters valid) returns a result;
\* a call with n = 1 raises.
C3_SampleSizeBoundary ==
    /\ (pc # "call" /\ prmtrs.n = 2 /\ ValidParameters(prmtrs, cfg.CI))
           => Returned
    /\ (pc # "call" /\ prmtrs.n = 1
           /\ ValidParameters([prmtrs EXCEPT !.n = 2], cfg.CI))
           => pc = "raised"


\* the simulation cell has computed the detection mask of the current arrays
Detected == pc \in {"detected", "reported", "done"}

\* the report cell has printed the report of the current arrays
Reported == pc \in {"reported", "done"}

\* a > b for two numbers neither of which is nan
StrictlyAbove(a, b) ==
    /\ ~IsNaN(a) /\ ~IsNaN(b)
    /\ a # b
    /\ \/ (IsFin(a) /\ IsFin(b) /\ a.v > b.v)
       \/ (IsInf(a) /\ a.v > 0)
       \/ (IsInf(b) /\ b.v < 0)

\* C4 (as amended): a trial is detected iff its t is strictly greater than
\* t_alpha; a trial whose t equals t_alpha is not detected; a trial whose t
\* is negative is not detected whenever t_alpha >= 0 (alpha <= 0.5).
C4_DetectIffAbove ==
    Detected =>
        \A k \in 1..Nexp :
            /\ detect[k] <=> StrictlyAbove(t[k], t_alpha)
            /\ (t[k] = t_alpha) => ~detect[k]
            /\ (StrictlyAbove(Fin(0), t[k]) /\ ~StrictlyAbove(Fin(0), t_alpha))
                   => ~detect[k]

\* a run with a detected trial, a trial whose t equals t_alpha and a trial
\* whose t is negative
C4_Witness ==
    /\ Detected
    /\ \E k \in 1..Nexp : detect[k]
    /\ \E k \in 1..Nexp : t[k] = t_alpha /\ ~IsNaN(t_alpha)
    /\ \E k \in 1..Nexp : StrictlyAbove(Fin(0), t[k])

\* C4 as stated: detected iff t > t_alpha, and a trial with negative t is
\* never detected
C4_Original ==
    Detected =>
        \A k \in 1..Nexp :
            /\ detect[k] <=> StrictlyAbove(t[k], t_alpha)
            /\ (t[k] = t_alpha) => ~detect[k]
            /\ StrictlyAbove(Fin(0), t[k]) => ~detect[k]

\* C5: the threshold of a run is the inverse survival function at the alpha
\* of the run's parameter record, with n-1 degrees of freedom; nothing
\* outside the record influences it.
C5_ThresholdFromParams ==
    Detected => t_alpha = Isf(prmtrs.alpha, prmtrs.n - 1)

\* the label of a value reported as undefined
Undefined == [k |-> "undefined", v |-> 0]

\* C6: when a run with valid parameters detects no trial, the mean detected
\* effect and the ratio not_in_CI / detections are reported as undefined,
\* not as the nan of a division by zero.
C6_UndefinedWhenNoDetection ==
    (Reported /\ ValidParameters(prmtrs, cfg.CI) /\ report.detections = 0)
        => (report.meanDetected = Undefined /\ report.percentage = Undefined)

\* C7: two executions of the notebook with the same literals (parameters,
\* Nexp, seed) give the same per-trial results and the same report.
C7_Deterministic ==
    (run = 2 /\ pc = "done") => Results = first

\* the second execution has ended, with a detection and a non-detection
C7_Witness ==
    /\ run = 2
    /\ pc = "done"
    /\ report.detections > 0
    /\ report.detections < Nexp
    /\ \E k \in 1..Nexp : effect[k] # effect[1]

\* detectionCount over the first k trials
CountOverFirst(k) == DetectionCount(SubSeq(detect, 1, k))

\* C8: detectionCount over the first k trials never decreases in k: one more
\* trial leaves it unchanged or adds exactly one.
C8_CountMonotone ==
    Detected =>
        \A k \in 0..(Nexp - 1) :
            \/ CountOverFirst(k + 1) = CountOverFirst(k)
            \/ CountOverFirst(k + 1) = CountOverFirst(k) + 1

\* a detected trial is followed by a trial that is not detected
C8_Witness ==
    /\ Detected
    /\ \E k \in 1..(Nexp - 1) : detect[k] /\ ~detect[k + 1]

\* C9: in every report 0 <= detectionCount <= trialCount.
C9_CountInRange ==
    Reported => (0 <= report.detections /\ report.detections <= Nexp)

\* a report in which some trials, but not all, are detected
C9_Witness ==
    /\ Reported
    /\ report.detections > 0
    /\ report.detections < Nexp

\* the trials whose interval excludes mu
Excluded(k) == FGt(lCI[k], prmtrs.mu) \/ FLt(uCI[k], prmtrs.mu)

\* C10: lCI > mu and uCI < mu never hold of the same trial; not_in_CI is
\* the number of detected trials whose interval excludes mu, so each adds
\* at most one and 0 <= not_in_CI <= detectionCount.
C10_MiscoverageExclusive ==
    Reported =>
        /\ \A k \in 1..Nexp :
               ~(FGt(lCI[k], prmtrs.mu) /\ FLt(uCI[k], prmtrs.mu))
        /\ report.not_in_CI
               = Cardinality({k \in 1..Nexp : detect[k] /\ Excluded(k)})
        /\ 0 <= report.not_in_CI
        /\ report.not_in_CI <= report.detections

\* a report with a detected trial whose interval lies above mu, a detected
\* trial whose interval lies below mu, both of positive width, and a
\* detected trial whose interval covers mu
C10_Witness ==
    /\ Reported
    /\ \E k \in 1..Nexp :
           detect[k] /\ FGt(lCI[k], prmtrs.mu) /\ FLt(lCI[k], uCI[k])
    /\ \E k \in 1..Nexp :
           detect[k] /\ FLt(uCI[k], prmtrs.mu) /\ FLt(lCI[k], uCI[k])
    /\ report.not_in_CI < report.detections


\* C11: from the start of the simulation loop to the end of the report, no
\* step (a trial, the detection, the report, the plot) changes a field of
\* the caller's prmtrs, so every trial sees the values the run began with.
C11_ParamsReadOnly ==
    [][(pc \in {"simulate", "detected", "reported"}) => prmtrs' = prmtrs]_vars

\* the plot cell has run after Nexp trials and prmtrs is still the literal
C11_Witness ==
    /\ pc = "done"
    /\ i = Nexp
    /\ prmtrs = cfg.prmtrs


\* the permutations of the trial indices
Perms == {f \in [1..Nexp -> 1..Nexp] : \A a, b \in 1..Nexp : a # b => f[a] # f[b]}

\* the array a with its trials taken in the order f
Permuted(a, f) == [k \in 1..Len(a) |-> a[f[k]]]

\* the report cell run on the trials taken in the order f
ReportInOrder(f) ==
    Report(Permuted(effect, f), Permuted(lCI, f), Permuted(uCI, f),
           DetectMask(Permuted(t, f), t_alpha), prmtrs.mu)

\* C12: the report of a run (detection count, mean effect, mean detected
\* effect, not_in_CI and the other printed values) is the same for every
\* order in which the same trials are stored and aggregated.
C12_OrderIndependent ==
    Reported => \A f \in Perms : ReportInOrder(f) = report

\* a report of trials with different effects, of which the first is
\* detected and another one is not
C12_Witness ==
    /\ Reported
    /\ detect[1]
    /\ \E k \in 2..Nexp : ~detect[k] /\ effect[k] # effect[1]
    /\ IsFin(report.meanDetected)


\* C14: a trial that fails does not end the run: the loop goes on with the
\* remaining trials and the report is produced from the trials that
\* succeeded.
C14_FailureIsolated ==
    (ret.raised /\ prmtrs.n >= 2)
        => pc \in {"simulate", "detected", "reported", "done"}


\* the 0 or 1 that says whether the trial of ret is detected at the alpha of
\* the parameters
DetectIndicator ==
    IF Detect(ret.t, TAlph(prmtrs.alpha, prmtrs.n - 1))
    THEN FromInt(1) ELSE FromInt(0)

\* C15: called with valid parameters, confidence_interval returns, in this
\* order, the estimated effect,
\* the detect indicator (1 when the effect is detected at alpha, else 0),
\* the lower bound lCI and the upper bound uCI.
C15_ReturnsAsDocumented ==
    (Returned /\ ValidParameters(prmtrs, cfg.CI))
        => ret.value = <<ret.effect, DetectIndicator, ret.lCI, ret.uCI>>


C18_SymmetricHalfWidth ==
    (Returned /\ ValidParameters(prmtrs, cfg.CI)) =>
        LET t_CI == Isf(FDiv(FSub(FromInt(1), cfg.CI), FromInt(2)), prmtrs.n - 1)
            half == FMul(t_CI, ret.std_error_mean)
        IN /\ FEq(FSub(ret.uCI, ret.effect), half)
           /\ FEq(FSub(ret.effect, ret.lCI), half)
           /\ FGe(half, Fin(0))

\* a result with valid parameters whose interval has a positive half-width
\* and is not centred on 0
C18_Witness ==
    /\ Returned
    /\ ValidParameters(prmtrs, cfg.CI)
    /\ FGt(ret.CI_, Fin(0))
    /\ ret.effect # Fin(0)
    /\ IsFin(ret.lCI)


\* the sum of the squared differences between the elements of a and m
SumSq(a, m) == FSum([j \in 1..Len(a) |-> FMul(FSub(a[j], m), FSub(a[j], m))])

\* the sum of the squared deviations of a from its mean
SumSqDev(a) == SumSq(a, FMean(a))

\* the standard deviation with Bessel's correction
BesselStd(a) == FSqrt(FDiv(SumSqDev(a), FromInt(Len(a) - 1)))

\* the standard error of the mean: the corrected deviation over sqrt(n)
BesselSem(a) == FDiv(BesselStd(a), FSqrt(FromInt(Len(a))))

\* C19: t_value_from_sample and confidence_interval both divide the sum of
\* squared deviations by n-1, never by n, and take the standard error of
\* the mean as that standard deviation over sqrt(n).
C19_BesselCorrection ==
    /\ (pc \in {"asserted", "experiments", "simulate", "detected", "reported",
                "done"})
           => t_val = FDiv(FMean(sample), BesselSem(sample))
    /\ (pc = "simulate" /\ i > 0)
           => ret.std_error_mean = BesselSem(ret.sample)

\* a trial of n >= 2 values with a positive standard error, after a
\* 20-experiment loop whose last t is a number
C19_Witness ==
    /\ pc = "simulate"
    /\ i > 0
    /\ Len(ret.sample) >= 2
    /\ FGt(ret.std_error_mean, Fin(0))
    /\ IsFin(t_val)
    /\ t_val # Fin(0)


\* the streaming fold: one accumulator, updated once per trial
FoldInit == [count |-> 0, detections |-> 0, sumAll |-> Fin(0),
             sumDetected |-> Fin(0), violations |-> 0]

FoldStep(acc, eff, lo, hi, tv, thr, mu) ==
    LET det == StrictlyAbove(tv, thr)
        out == StrictlyAbove(lo, mu) \/ StrictlyAbove(mu, hi)
    IN [count       |-> acc.count + 1,
        detections  |-> acc.detections + (IF det THEN 1 ELSE 0),
        sumAll      |-> FAdd(acc.sumAll, eff),
        sumDetected |-> IF det THEN FAdd(acc.sumDetected, eff)
                        ELSE acc.sumDetected,
        violations  |-> acc.violations + (IF det /\ out THEN 1 ELSE 0)]

\* the accumulator after the first k trials of the run
RECURSIVE Fold(_)
Fold(k) ==
    IF k = 0 THEN FoldInit
    ELSE FoldStep(Fold(k - 1), effect[k], lCI[k], uCI[k], t[k], t_alpha,
                  prmtrs.mu)

\* the report cell run on the first k trials
ReportOfPrefix(k) ==
    Report(SubSeq(effect, 1, k), SubSeq(lCI, 1, k), SubSeq(uCI, 1, k),
           DetectMask(SubSeq(t, 1, k), t_alpha), prmtrs.mu)

\* C20: after every prefix of the trials, the report computed from the
\* stored arrays (mask with detect, then sum) equals the one a streaming
\* fold gives: the same detection count and not_in_CI, the mean effect is
\* the sum over all trials over the trial count, and the mean detected
\* effect is the sum over the detected trials over the detection count.
C20_FoldEquivalent ==
    Reported =>
        \A k \in 0..Nexp :
            /\ ReportOfPrefix(k).detections = Fold(k).detections
            /\ ReportOfPrefix(k).not_in_CI = Fold(k).violations
            /\ ReportOfPrefix(k).meanEffect
                   = FDiv(Fold(k).sumAll, FromInt(Fold(k).count))
            /\ ReportOfPrefix(k).meanDetected
                   = FDiv(Fold(k).sumDetected, FromInt(Fold(k).detections))

\* a report with a detected trial outside its interval, a detected trial
\* inside it and a trial that is not detected
C20_Witness ==
    /\ Reported
    /\ report.not_in_CI > 0
    /\ report.not_in_CI < report.detections
    /\ report.detections < Nexp
    /\ IsFin(report.meanDetected)
    /\ report.meanDetected # report.meanEffect


\* C21: among the detected trials (t > t_alpha, one-sided at alpha = 0.05)
\* there is none whose lower bound lCI (two-sided interval at CI = 0.95) is
\* below 0.
C21_NoDetectedBelowZero ==
    (Detected /\ alpha = Fin(50) /\ cfg.CI = Fin(950)
        /\ ValidParameters(prmtrs, cfg.CI))
        => \A k \in 1..Nexp : detect[k] => ~FLt(lCI[k], Fin(0))


\* mu >= 0 and (1 - CI)/2 <= alpha, with alpha the one the detection used
ThresholdBelowQuantile ==
    /\ FGe(prmtrs.mu, Fin(0))
    /\ FLe(FDiv(FSub(FromInt(1), cfg.CI), FromInt(2)), alpha)

\* C22: when mu >= 0 and (1 - CI)/2 <= alpha, every trial whose lCI is
\* greater than mu is a detected trial; the count of lCI > mu over all
\* trials equals the count over the detected trials, and the ratio of the
\* plot cell, (lCI > mu).sum() / detect.sum(), never exceeds 1.
C22_LowerAboveIsDetected ==
    (pc = "done" /\ ThresholdBelowQuantile) =>
        /\ \A k \in 1..Nexp : FGt(lCI[k], prmtrs.mu) => detect[k]
        /\ report.lowerAboveAll = report.lowerAbove
        /\ plot = IntTrueDiv(report.lowerAbove, report.detections)
        /\ ~FGt(plot, FromInt(1))

\* a run with mu >= 0 in which a trial has its lower bound above mu, and a
\* detected trial has not
C22_Witness ==
    /\ pc = "done"
    /\ ThresholdBelowQuantile
    /\ \E k \in 1..Nexp : FGt(lCI[k], prmtrs.mu)
    /\ \E k \in 1..Nexp : detect[k] /\ ~FGt(lCI[k], prmtrs.mu)
    /\ FGt(plot, Fin(0))
    /\ FLt(plot, FromInt(1))


\* the t confidence_interval computes of the sample smp
TrialT(smp) == TStatistic(FMean(smp), StdErrorMean(smp, Len(smp)))

\* the decision of the 20-experiment loop on the sample of the p-value
\* cells, at the level a
SignifAt(a) == Signif(p_val, a)

\* the decision of the simulation cell on the same sample, at the level a
DetectAt(a) == Detect(TrialT(sample), TAlpha(a, Len(sample)))

\* the t of the sample is exactly the threshold of the level a
OnThreshold(a) == FEq(TrialT(sample), TAlpha(a, Len(sample)))

\* C23: for the same sample, n and alpha, the rule p_val <= alpha of the
\* 20-experiment loop and the rule t > t_alpha of the simulation give the
\* same decision whenever t differs from t_alpha, and different decisions
\* when t equals t_alpha.
C23_RulesAgreeOffThreshold ==
    (pc # "sampled") =>
        \A a \in AlphaValues :
            IF OnThreshold(a) THEN SignifAt(a) /\ ~DetectAt(a)
            ELSE SignifAt(a) <=> DetectAt(a)

\* a sample whose t is the threshold of one level, above the threshold of
\* another (significant and detected) and below that of a third (neither)
C23_Witness ==
    /\ pc = "asserted"
    /\ \E a \in AlphaValues : OnThreshold(a) /\ SignifAt(a) /\ ~DetectAt(a)
    /\ \E a \in AlphaValues : ~OnThreshold(a) /\ SignifAt(a) /\ DetectAt(a)
    /\ \E a \in AlphaValues : ~OnThreshold(a) /\ ~SignifAt(a) /\ ~DetectAt(a)


\* C24: for every sample, the t confidence_interval returns (the mean over
\* np.std(ddof=1)/sqrt(n)) is the value t_value_from_sample returns for the
\* same sample (the mean over sqrt(np.var(ddof=1))/sqrt(N)).
C24_SameTStatistic ==
    Returned =>
        /\ ret.value[4] = TValueFromSample(ret.sample)
        /\ ret.t = TStatistic(ret.effect, ret.std_error_mean)

\* a call that returned a t that is a number other than 0, of a sample of
\* n >= 2 values that are not all equal
C24_Witness ==
    /\ Returned
    /\ Len(ret.sample) >= 2
    /\ IsFin(ret.value[4])
    /\ ret.value[4] # Fin(0)
    /\ FGt(ret.std_error_mean, Fin(0))


\* the call of the current state made with a in place of prmtrs['alpha']
CallWithAlpha(a) ==
    ConfidenceInterval(cfg.CI, [prmtrs EXCEPT !.alpha = a], rng)

\* two calls end alike: both raise, or both return the same tuple
SameOutcome(r, s) == r.raised = s.raised /\ r.value = s.value

C26_DetectedEffectPositive ==
    (Reported /\ FLt(alpha, Fin(500))) =>
        /\ \A k \in 1..Nexp :
               detect[k] => (FGt(effect[k], Fin(0)) /\ FGt(uCI[k], Fin(0)))
        /\ (report.detections > 0) => FGt(report.meanDetected, Fin(0))

\* a report at alpha = 0.05 with a negative mu, a detected trial and a trial
\* of negative effect
C26_Witness ==
    /\ Reported
    /\ FLt(alpha, Fin(500))
    /\ FLt(prmtrs.mu, Fin(0))
    /\ report.detections > 0
    /\ FGt(t_alpha, Fin(0))
    /\ \E k \in 1..Nexp : FLt(effect[k], Fin(0))


\* the four arrays of the simulation cell at index k
Row(k) == <<effect[k], lCI[k], uCI[k], t[k]>>

\* the same index after the step
RowAfter(k) == <<effect'[k], lCI'[k], uCI'[k], t'[k]>>

\* C27: in the simulation loop, iteration i writes only index i of effect,
\* lCI, uCI and t, with the four values one call returned, and leaves every
\* other index unchanged; an index the loop has not reached is still as
\* np.zeros left it, so after the loop each index was written exactly once.
C27_WritesOnlyOwnIndex ==
    /\ [][(pc = "simulate") =>
              /\ \A k \in 1..Nexp : (k # i + 1) => RowAfter(k) = Row(k)
              /\ (i' = i + 1) => (i < Nexp /\ RowAfter(i + 1) = ret'.value)
              /\ (i' # i + 1) =>
                     (i' = i /\ \A k \in 1..Nexp : RowAfter(k) = Row(k))]_vars
    /\ []((pc = "simulate") =>
              \A k \in (i + 1)..Nexp : Row(k) = <<Fin(0), Fin(0), Fin(0), Fin(0)>>)

\* the loop has ended with every index holding another trial's values
C27_Witness ==
    /\ pc = "simulate"
    /\ i = Nexp
    /\ Row(Nexp) = ret.value
    /\ \A j, k \in 1..Nexp : (j # k) => Row(j) # Row(k)
    /\ \A k \in 1..Nexp : IsFin(t[k]) /\ effect[k] # Fin(0)


\* the generator state one draw before g
GenPrev(g) == <<(3 * (g[3] - g[2] + 5)) % 5, g[1], g[2]>>

\* the generator state n draws before g
RECURSIVE GenBack(_, _)
GenBack(g, n) == IF n <= 0 THEN g ELSE GenBack(GenPrev(g), n - 1)

\* the sample made of the n deviates that follow the state g
BlockAfter(g) ==
    [j \in 1..prmtrs.n |->
        FAdd(FMul(prmtrs.sigma, StandardNormal(g, prmtrs.n)[j]), prmtrs.mu)]

\* what trial j of a loop that began in state g0 returns, if it consumes
\* draws (j-1)*n+1 .. j*n after g0
TrialOfBlock(g0, j) ==
    ConfidenceInterval(cfg.CI, prmtrs, GenSkip(g0, (j - 1) * prmtrs.n)).value

\* the draws a step consumes, by the cell it belongs to
StepDraws ==
    IF pc = "seeded" THEN norm01_size
    ELSE IF pc = "experiments" /\ idx' = idx + 1 THEN sample_size
    ELSE IF pc = "simulate" /\ i' = i + 1 THEN prmtrs.n
    ELSE 0

\* C28: every trial advances the process-wide generator by exactly n draws
\* and nothing else reads or reseeds it during the simulation, so trial j
\* consumes the j-th block of n draws after the state the loop began in;
\* that state is the seeded one advanced by the draws of the earlier cells
\* (30 of the first sample, 16 of each of the 20 experiments).
C28_TrialsConsumeBlocks ==
    /\ [][IF pc = "start" THEN rng' = SeedState(cfg.seed)
          ELSE /\ rng' = GenSkip(rng, StepDraws)
               /\ (pc = "simulate" /\ i' = i + 1)
                      => ret'.sample = BlockAfter(rng)]_vars
    /\ []((pc = "simulate") =>
              \A j \in 1..i :
                  Row(j) = TrialOfBlock(GenBack(rng, i * prmtrs.n), j))

\* the loop has ended after trials of n >= 2 draws each that returned
\* different values
C28_Witness ==
    /\ pc = "simulate"
    /\ i = Nexp
    /\ prmtrs.n >= 2
    /\ rng # GenBack(rng, prmtrs.n)
    /\ \A j, k \in 1..Nexp : (j # k) => Row(j) # Row(k)
    /\ IsFin(t[1])


\* the generator state the 20-experiment loop begins in: the seeded state
\* after the draws of the first sample
LoopStart == GenSkip(SeedState(cfg.seed), norm01_size)

\* the sample means of the experiments with p_val <= alpha among the first
\* k experiments of a loop that begins in state g, in experiment order;
\* drawn is the sample of the first of them and the state it leaves
RECURSIVE SignificantMeans(_, _)
RECURSIVE MeansAfter(_, _)
MeansAfter(drawn, k) ==
    (IF FLe(Sf(TValueFromSample(drawn.sample), sample_size - 1), alpha)
     THEN <<FMean(drawn.sample)>> ELSE <<>>)
    \o SignificantMeans(drawn.rng, k - 1)

SignificantMeans(g, k) ==
    IF k = 0 THEN <<>>
    ELSE MeansAfter(Rvs(Fin(220), Fin(Scale), sample_size, g), k)

\* C29: in the 20-experiment loop effect_size is append-only: an iteration
\* leaves it as it is or appends one element, after k iterations its length
\* is the number of experiments with p_val <= alpha among the first k (at
\* most k), and its entries are the sample means of those experiments, in
\* experiment order (recomputed from the seed for the first execution).
C29_EffectSizeAppendOnly ==
    /\ [][(pc = "experiments" /\ idx' = idx + 1) =>
              \/ effect_size' = effect_size /\ ~FLe(p_val', alpha)
              \/ /\ effect_size' = Append(effect_size, FMean(sample'))
                 /\ FLe(p_val', alpha)]_vars
    /\ []((pc = "experiments") => Len(effect_size) <= idx)
    /\ []((pc = "experiments" /\ run = 1) =>
              effect_size = SignificantMeans(LoopStart, idx))

\* the loop has ended with some experiments significant and some not
C29_Witness ==
    /\ pc = "experiments"
    /\ idx = nb_of_experiments
    /\ Len(effect_size) > 1
    /\ Len(effect_size) < nb_of_experiments
    /\ effect_size[1] # effect_size[2]


\* the token the loop of pig_latin is about to take, lowered
Token == Lower(word_list[pos + 1])

\* C30: pig_latin never indexes an empty word: for every string, only the
\* tokens that are not empty and purely alphabetic reach word[0] and give a
\* word of the output; every other token is dropped without an exception,
\* so the call returns, with at most as many words as the argument has
\* space-separated tokens.
C30_NeverIndexesEmptyWord ==
    /\ [](pc # "pig_error")
    /\ [][(pc = "pig_loop" /\ pos < Len(word_list)) =>
              /\ pos' = pos + 1
              /\ IF Len(Token) > 0 /\ \A j \in 1..Len(Token) : IsLetter(Token[j])
                 THEN Len(output_list') = Len(output_list) + 1
                 ELSE output_list' = output_list]_vars
    /\ []((pc \in {"pig_loop", "pig_done"}) =>
              /\ Len(output_list) <= pos
              /\ pos <= Len(word_list)
              /\ Len(word_list)
                     = 1 + Cardinality({j \in 1..Len(text) : text[j] = " "}))

\* a call has returned for a string with a leading space and two spaces in
\* a row, in which one token is a word
C30_Witness ==
    /\ pc = "pig_done"
    /\ Len(text) >= 4
    /\ text[1] = " "
    /\ \E j \in 2..(Len(text) - 1) : text[j] = " " /\ text[j + 1] = " "
    /\ Len(output_list) = 1
    /\ Len(word_list) > 2
    /\ pygged # <<>>

=============================================================================
